---- MODULE Spec2Model ----
(***************************************************************************)
(* A model of the query-string-builder crate: the dynamic builder          *)
(* (QueryString, src/src/lib.rs), the slim chained builder                 *)
(* (WrappedQueryString, src/src/slim.rs) and the percent-encoding of keys  *)
(* and values they share.                                                  *)
(*                                                                         *)
(* A Rust String is modelled as the sequence of its Unicode scalar values  *)
(* (code points, as integers); so is everything a render writes.  The      *)
(* encoder works on the UTF-8 bytes of a string, which Utf8 computes.      *)
(* Option<T> is modelled as a sequence of length 0 (None) or 1 (Some(x)).  *)
(***************************************************************************)
EXTENDS Integers, Sequences, FiniteSets

VARIABLES
    variant,   \* which builder the program constructed: "dynamic" | "slim" | "text"
    pairs,     \* QueryString.pairs : Vec<Kvp>                (lib.rs:66)
    wqs,       \* the slim builder value the program holds    (slim.rs:31-38)
    call,      \* the most recent call made on the builder (operation and arguments)
    ret,       \* the value that call returned
    hist,      \* history: the (key, value) strings of the pairs appended, in call order
    n,         \* history: number of required appends (with_value / with / push)
    m,         \* history: number of optional appends (with_opt_value / push_opt)
    k,         \* history: number of optional appends that received None
    merged,    \* history: TRUE once append / append_into has been called
    conv,      \* slim builder: the values whose to_string() the most recent call invoked, in order
    src,       \* encoder specification: the text handed to a Key / Value constructor
    txt        \* encoder specification: the Text the constructor built (an Option)

vars == <<variant, pairs, wqs, call, ret, hist, n, m, k, merged, conv, src, txt>>

----------------------------------------------------------------------------
(* Bounds of the model.                                                    *)

MaxPairs == 2      \* longest pair list of the dynamic builder
MaxOther == 1      \* longest pair list of a builder handed to append / append_into
MaxAbsent == 2     \* most optional appends with None on the dynamic builder
MaxDepth == 4      \* most with_value / with_opt_value calls on the slim builder
MaxSrcLen == 2     \* longest text of the encoder specification
MaxByteChar == 255 \* the encoder specification draws every code point 0..MaxByteChar

----------------------------------------------------------------------------
(* Option<T>.                                                              *)

None == <<>>
Some(x) == <<x>>

(* Characters the code writes or names.                                    *)
CharSpace == 32
CharDQuote == 34
CharHash == 35
CharPercent == 37
CharAmp == 38
CharPlus == 43
CharLt == 60
CharEq == 61
CharGt == 62
CharQMark == 63

StrTrue == <<116, 114, 117, 101>>          \* "true"
StrFalse == <<102, 97, 108, 115, 101>>     \* "false"

----------------------------------------------------------------------------
(* Values convertible to text (K: ToString, V: ToString / Display).  A     *)
(* value is [type, val]: a string carries its code points, a bool carries  *)
(* <<1>> or <<0>>.                                                         *)

Str(s) == [type |-> "str", val |-> s]
Bool(b) == [type |-> "bool", val |-> IF b THEN <<1>> ELSE <<0>>]

\* ToString::to_string / Display of a str or a bool
ToString(v) ==
    IF v.type = "bool"
    THEN (IF v.val = <<1>> THEN StrTrue ELSE StrFalse)
    ELSE v.val

----------------------------------------------------------------------------
(* str::as_bytes: the UTF-8 encoding of a string.                          *)

Utf8Char(c) ==
    IF c < 128 THEN <<c>>
    ELSE IF c < 2048 THEN <<192 + (c \div 64), 128 + (c % 64)>>
    ELSE IF c < 65536
         THEN <<224 + (c \div 4096), 128 + ((c \div 64) % 64), 128 + (c % 64)>>
         ELSE <<240 + (c \div 262144), 128 + ((c \div 4096) % 64),
                128 + ((c \div 64) % 64), 128 + (c % 64)>>

RECURSIVE Utf8(_)
Utf8(s) == IF s = <<>> THEN <<>> ELSE Utf8Char(Head(s)) \o Utf8(Tail(s))

----------------------------------------------------------------------------
(* The percent_encoding crate, as the code uses it.                        *)

\* percent_encoding::CONTROLS: the C0 controls and DEL
CONTROLS == (0 .. 31) \cup {127}

\* the looser set that leaves '#', '%', '&', '=' and '+' alone
QueryLoose == CONTROLS \cup {CharSpace} \cup {CharDQuote} \cup {CharLt} \cup {CharGt}

\* const QUERY: &AsciiSet = &CONTROLS.add(b' ')....add(b'+')
QUERY ==
    CONTROLS \cup {CharSpace} \cup {CharDQuote} \cup {CharHash} \cup {CharLt}
             \cup {CharGt} \cup {CharPercent} \cup {CharAmp} \cup {CharEq}
             \cup {CharPlus}

\* AsciiSet::should_percent_encode: every non-ASCII byte, and the ASCII bytes of the set
ShouldPercentEncode(byte, set) == byte >= 128 \/ byte \in set

\* one uppercase hexadecimal digit, as a character
HexDigit(d) == IF d < 10 THEN 48 + d ELSE 55 + d

\* percent_encode_byte: "%XX"
PercentEncodeByte(byte) ==
    <<CharPercent, HexDigit(byte \div 16), HexDigit(byte % 16)>>

\* percent_encode(bytes, set).to_string()
RECURSIVE PercentEncode(_, _)
PercentEncode(bytes, set) ==
    IF bytes = <<>> THEN <<>>
    ELSE (IF ShouldPercentEncode(Head(bytes), set)
          THEN PercentEncodeByte(Head(bytes))
          ELSE <<Head(bytes)>>) \o PercentEncode(Tail(bytes), set)

\* utf8_percent_encode(s, set).to_string()
Utf8PercentEncode(s, set) == PercentEncode(Utf8(s), set)

----------------------------------------------------------------------------
(* enum Text, and the constructors of Key and Value (both wrap one Text).  *)

Unformatted(s) == [tag |-> "Unformatted", text |-> s]
Formatted(s) == [tag |-> "Formatted", text |-> s]

KeyFrom(key) == Unformatted(ToString(key))
KeyFromEager(key) == Formatted(Utf8PercentEncode(ToString(key), QUERY))
KeyFromStr(key) == Formatted(Utf8PercentEncode(key, QUERY))
KeyFromRawBytes(key) == Formatted(PercentEncode(key, QUERY))

ValueFrom(value) == Unformatted(ToString(value))
ValueFromEager(value) == Formatted(Utf8PercentEncode(ToString(value), QUERY))
ValueFromStr(value) == Formatted(Utf8PercentEncode(value, QUERY))
ValueFromRawBytes(value) == Formatted(PercentEncode(value, QUERY))

\* a Display that writes the text as stored whatever the tag says
TextFmtVerbatim(t) == t.text

\* a Display that percent-encodes whatever the tag says
TextFmtEncodeAlways(t) == Utf8PercentEncode(t.text, QUERY)

\* impl Display for Text
TextFmt(t) ==
    IF t.tag = "Unformatted"
    THEN Utf8PercentEncode(t.text, QUERY)
    ELSE t.text

\* impl<T: ToString> From<T> for Key / for Value
KeyInto(value) == KeyFrom(value)
ValueInto(value) == ValueFrom(value)

----------------------------------------------------------------------------
(* The dynamic builder: struct QueryString { pairs: Vec<Kvp> }.            *)

\* Kvp::new
KvpNew(key, value) == [key |-> key, value |-> value]

\* QueryString::new
QueryStringNew == <<>>

\* a push that puts the new element in front
VecPushFront(v, x) == <<x>> \o v

\* Vec::push
VecPush(v, x) == Append(v, x)

\* Vec::append(&mut self, other: &mut Vec): moves every element of other behind self's
VecAppend(v, other) == v \o other

\* FmtPairs with the separator written before every pair, the first included
RECURSIVE FmtPairsAmpAlways(_, _)
FmtPairsAmpAlways(ps, i) ==
    IF i > Len(ps) THEN <<>>
    ELSE <<CharAmp>> \o TextFmt(ps[i].key) \o <<CharEq>> \o TextFmt(ps[i].value)
         \o FmtPairsAmpAlways(ps, i + 1)

\* the loop of Display::fmt: pair i (counted from 1) and the pairs behind it
RECURSIVE FmtPairs(_, _)
FmtPairs(ps, i) ==
    IF i > Len(ps) THEN <<>>
    ELSE (IF i > 1 THEN <<CharAmp>> ELSE <<>>)
         \o TextFmt(ps[i].key) \o <<CharEq>> \o TextFmt(ps[i].value)
         \o FmtPairs(ps, i + 1)

\* impl Display for QueryString
QueryStringFmt(ps) ==
    IF ps = <<>> THEN <<>> ELSE <<CharQMark>> \o FmtPairs(ps, 1)

\* #[derive(Clone)] for Text, Key, Value and Kvp
TextClone(t) == [tag |-> t.tag, text |-> t.text]
KvpClone(p) == [key |-> TextClone(p.key), value |-> TextClone(p.value)]

\* #[derive(Clone)] for QueryString: Vec::clone clones every pair, in order
QueryStringClone(ps) == [i \in 1 .. Len(ps) |-> KvpClone(ps[i])]

\* QueryString::len, QueryString::is_empty
QueryStringLen(ps) == Len(ps)
QueryStringIsEmpty(ps) == (ps = <<>>)

----------------------------------------------------------------------------
(* What the program passes in.                                             *)

\* keys: "q" and "&=\u{FC}" ('&', '=' and u-umlaut)
Keys == {Str(<<113>>), Str(<<CharAmp, CharEq, 252>>)}
\* values: " %" and true
Values == {Str(<<CharSpace, CharPercent>>), Bool(TRUE)}

\* the ways `with` is handed a key or a value
Ctors == {"into", "from", "from_eager", "from_str", "from_raw_bytes"}

\* from_str takes a str, from_raw_bytes is given the bytes of a str
CtorAccepts(c, v) == c \in {"from_str", "from_raw_bytes"} => v.type = "str"

MakeKey(c, key) ==
    CASE c = "into" -> KeyInto(key)
      [] c = "from" -> KeyFrom(key)
      [] c = "from_eager" -> KeyFromEager(key)
      [] c = "from_str" -> KeyFromStr(key.val)
      [] c = "from_raw_bytes" -> KeyFromRawBytes(Utf8(key.val))

MakeValue(c, value) ==
    CASE c = "into" -> ValueInto(value)
      [] c = "from" -> ValueFrom(value)
      [] c = "from_eager" -> ValueFromEager(value)
      [] c = "from_str" -> ValueFromStr(value.val)
      [] c = "from_raw_bytes" -> ValueFromRawBytes(Utf8(value.val))

\* the (key, value) strings of one appended pair, for the history
HistEntry(key, value) == [key |-> ToString(key), value |-> ToString(value)]

\* builders handed to append / append_into: built by with_value on a fresh builder
RECURSIVE BuildersOfLen(_)
BuildersOfLen(l) ==
    IF l = 0 THEN {QueryStringNew}
    ELSE {VecPush(b, KvpNew(KeyFrom(key), ValueFrom(value))) :
            b \in BuildersOfLen(l - 1), key \in Keys, value \in Values}

OtherBuilders == UNION {BuildersOfLen(l) : l \in 0 .. MaxOther}

\* the history of such a builder: with_value keeps the strings as they were given
HistOfOther(other) ==
    [i \in 1 .. Len(other) |-> [key |-> other[i].key.text, value |-> other[i].value.text]]

----------------------------------------------------------------------------
(* The slim builder: WrappedQueryString<B, T> { base: BaseOption<B>,       *)
(* value: KvpOption<T> }.  A builder value is the record [base, value];    *)
(* base is None or Some(the builder this one wraps), value is None or      *)
(* Some([key, value]) with the key and value as they were handed in.       *)

\* struct RootMarker(()): the type of the root's base, of which no value is ever built
RootMarker == [marker |-> "RootMarker"]
IsRootMarker(b) == "marker" \in DOMAIN b

\* a root built on a RootMarker value instead of BaseOption::None
WqsNewOnMarker == [base |-> Some(RootMarker), value |-> None]

\* WrappedQueryString::new
WqsNew == [base |-> None, value |-> None]

\* WrappedQueryString::with_value
WqsWithValue(self, key, value) ==
    [base |-> Some(self), value |-> Some([key |-> key, value |-> value])]

\* WrappedQueryString::with_opt_value; value is an Option
WqsWithOptValue(self, key, value) ==
    IF value # None
    THEN [base |-> Some(self), value |-> Some([key |-> key, value |-> value[1]])]
    ELSE [base |-> Some(self), value |-> None]

\* KvpOption::is_empty
KvpOptionIsEmpty(v) == (v = None)

\* impl Identifyable for WrappedQueryString: is_root
IdIsRoot(w) == (w.base = None)

\* impl Identifyable for WrappedQueryString / RootMarker: is_empty, with BaseOption::is_empty
RECURSIVE IdIsEmpty(_)
BaseOptionIsEmpty(b) == IF b = None THEN TRUE ELSE IdIsEmpty(b[1])
IdIsEmpty(w) ==
    IF IsRootMarker(w) THEN TRUE
    ELSE IF w.value # None THEN FALSE ELSE BaseOptionIsEmpty(w.base)

\* impl Identifyable for WrappedQueryString / RootMarker: len, with BaseOption::len
RECURSIVE IdLen(_)
BaseOptionLen(b) == IF b = None THEN 0 ELSE IdLen(b[1])
IdLen(w) ==
    IF IsRootMarker(w) THEN 0
    ELSE IF w.value # None THEN 1 + BaseOptionLen(w.base) ELSE BaseOptionLen(w.base)

\* is_empty that looks at the tip only
WqsIsEmptyTipOnly(self) == KvpOptionIsEmpty(self.value)

\* WrappedQueryString::is_empty (the inherent method)
WqsIsEmpty(self) ==
    IF IdIsRoot(self) /\ KvpOptionIsEmpty(self.value) THEN TRUE
    ELSE IF ~KvpOptionIsEmpty(self.value) THEN FALSE
    ELSE BaseOptionIsEmpty(self.base)

\* WrappedQueryString::len (the inherent method)
WqsLen(self) ==
    IF WqsIsEmpty(self) THEN 0 ELSE 1 + BaseOptionLen(self.base)

\* Display for Kvp encoding with the looser set
SlimKvpFmtLoose(kvp) ==
    Utf8PercentEncode(ToString(kvp.key), QueryLoose) \o <<CharEq>>
        \o Utf8PercentEncode(ToString(kvp.value), QueryLoose)

\* impl Display for Kvp (slim): both texts are converted and encoded here
SlimKvpFmt(kvp) ==
    Utf8PercentEncode(ToString(kvp.key), QUERY) \o <<CharEq>>
        \o Utf8PercentEncode(ToString(kvp.value), QUERY)

\* impl Display for KvpOption
KvpOptionFmt(v) == IF v = None THEN <<>> ELSE SlimKvpFmt(v[1])

\* Display for Kvp converting the key a second time
SlimKvpConvTwice(kvp) == <<kvp.key, kvp.key, kvp.value>>

\* impl Display for Kvp (slim): the to_string() calls it makes, in order
SlimKvpConv(kvp) == <<kvp.key, kvp.value>>

\* impl Display for KvpOption: the to_string() calls it makes
KvpOptionConv(v) == IF v = None THEN <<>> ELSE SlimKvpConv(v[1])

\* What a cond_fmt call did: the characters it wrote to the formatter, the
\* depth it returned, whether it ran into unreachable!(), and the values
\* whose to_string() it invoked.
CondResult(out, depth, unreachable, convs) ==
    [out |-> out, depth |-> depth, unreachable |-> unreachable, conv |-> convs]

\* impl ConditionalDisplay for WrappedQueryString / RootMarker, with the
\* impl for BaseOption
RECURSIVE CondFmt(_, _)
BaseOptionCondFmt(b, should_display) ==
    IF b = None
    THEN CondResult(IF should_display THEN <<CharQMark>> ELSE <<>>, 0, FALSE, <<>>)
    ELSE CondFmt(b[1], should_display)

\* CondFmt with the combinator written after every pair, whatever the caller displays
CondFmtAmpAlways(w, should_display) ==
    IF IsRootMarker(w) THEN CondResult(<<>>, 0, TRUE, <<>>)
    ELSE IF ~should_display /\ KvpOptionIsEmpty(w.value)
    THEN BaseOptionCondFmt(w.base, FALSE)
    ELSE LET parent == BaseOptionCondFmt(w.base, TRUE) IN
         IF KvpOptionIsEmpty(w.value) THEN parent
         ELSE CondResult(parent.out \o KvpOptionFmt(w.value) \o <<CharAmp>>,
                         parent.depth + 1,
                         parent.unreachable,
                         parent.conv \o KvpOptionConv(w.value))

CondFmt(w, should_display) ==
    IF IsRootMarker(w) THEN CondResult(<<>>, 0, TRUE, <<>>)
    ELSE IF ~should_display /\ KvpOptionIsEmpty(w.value)
    THEN BaseOptionCondFmt(w.base, FALSE)
    ELSE LET parent == BaseOptionCondFmt(w.base, TRUE) IN
         IF KvpOptionIsEmpty(w.value) THEN parent
         ELSE CondResult(parent.out \o KvpOptionFmt(w.value)
                             \o (IF should_display THEN <<CharAmp>> ELSE <<>>),
                         parent.depth + 1,
                         parent.unreachable,
                         parent.conv \o KvpOptionConv(w.value))

\* a Display that writes the tip's pair before what the chain below it writes
WqsFmtTipFirst(self) ==
    LET should_display == ~KvpOptionIsEmpty(self.value) IN
    (IF should_display THEN KvpOptionFmt(self.value) ELSE <<>>)
        \o BaseOptionCondFmt(self.base, should_display).out

\* impl Display for WrappedQueryString
WqsFmt(self) ==
    LET should_display == ~KvpOptionIsEmpty(self.value) IN
    BaseOptionCondFmt(self.base, should_display).out
        \o (IF should_display THEN KvpOptionFmt(self.value) ELSE <<>>)

\* impl Display for WrappedQueryString: the to_string() calls it makes, in order
WqsFmtConv(self) ==
    LET should_display == ~KvpOptionIsEmpty(self.value) IN
    BaseOptionCondFmt(self.base, should_display).conv
        \o (IF should_display THEN KvpOptionConv(self.value) ELSE <<>>)

----------------------------------------------------------------------------
(* The methods of the dynamic builder, as functions of the pair list.      *)

\* with_value that encodes the key and the value as it stores them
QsWithValueEager(ps, key, value) ==
    VecPush(ps, KvpNew(KeyFromEager(key), ValueFromEager(value)))

\* QueryString::with_value
QsWithValue(ps, key, value) == VecPush(ps, KvpNew(KeyFrom(key), ValueFrom(value)))

\* QueryString::with; key and value are already converted by Into
QsWith(ps, key, value) == VecPush(ps, KvpNew(key, value))

\* with_opt_value that appends the key with an empty value when the value is None
QsWithOptValueAlways(ps, key, value) ==
    IF value # None
    THEN VecPush(ps, KvpNew(KeyFrom(key), ValueFrom(value[1])))
    ELSE VecPush(ps, KvpNew(KeyFrom(key), Unformatted(<<>>)))

\* QueryString::with_opt_value; value is an Option
QsWithOptValue(ps, key, value) ==
    IF value # None THEN QsWithValue(ps, key, value[1]) ELSE ps

\* QueryString::push
QsPush(ps, key, value) == VecPush(ps, KvpNew(KeyFrom(key), ValueFrom(value)))

\* push_opt that pushes the key with an empty value when the value is None
QsPushOptAlways(ps, key, value) ==
    IF value # None
    THEN VecPush(ps, KvpNew(KeyFrom(key), ValueFrom(value[1])))
    ELSE VecPush(ps, KvpNew(KeyFrom(key), Unformatted(<<>>)))

\* QueryString::push_opt; value is an Option
QsPushOpt(ps, key, value) ==
    IF value # None THEN QsPush(ps, key, value[1]) ELSE ps

\* append that puts the other builder's pairs in front
QsAppendFront(ps, other) == VecAppend(other, ps)

\* QueryString::append
QsAppend(ps, other) == VecAppend(ps, other)

\* QueryString::append_into
QsAppendInto(ps, other) == VecAppend(ps, other)

----------------------------------------------------------------------------
(* The state machine of a program that builds one query string.            *)

Call(op, args) == [op |-> op, args |-> args]

OptValues == {None} \cup {Some(v) : v \in Values}

Init ==
    /\ variant \in {"dynamic", "slim"}
    /\ pairs = QueryStringNew
    /\ wqs = WqsNew
    /\ call = Call("new", <<>>)
    /\ ret = "self"
    /\ hist = <<>>
    /\ n = 0
    /\ m = 0
    /\ k = 0
    /\ merged = FALSE
    /\ conv = <<>>
    /\ src = <<>>
    /\ txt = None

Frame == UNCHANGED <<variant, src, txt>>

\* qs = qs.with_value(key, value)
WithValue(key, value) ==
    /\ variant = "dynamic"
    /\ Len(pairs) < MaxPairs
    /\ pairs' = QsWithValue(pairs, key, value)
    /\ call' = Call("with_value", <<key, value>>)
    /\ ret' = "self"
    /\ hist' = Append(hist, HistEntry(key, value))
    /\ n' = n + 1
    /\ UNCHANGED <<wqs, m, k, merged>>
    /\ UNCHANGED conv
    /\ Frame

\* qs = qs.with(key, value), the key and the value each handed in one of the five ways
With(kc, key, vc, value) ==
    /\ variant = "dynamic"
    /\ Len(pairs) < MaxPairs
    /\ CtorAccepts(kc, key)
    /\ CtorAccepts(vc, value)
    /\ pairs' = QsWith(pairs, MakeKey(kc, key), MakeValue(vc, value))
    /\ call' = Call("with", <<key, value>>)
    /\ ret' = "self"
    /\ hist' = Append(hist, HistEntry(key, value))
    /\ n' = n + 1
    /\ UNCHANGED <<wqs, m, k, merged>>
    /\ UNCHANGED conv
    /\ Frame

\* qs = qs.with_opt_value(key, value)
WithOptValue(key, value) ==
    /\ variant = "dynamic"
    /\ IF value # None THEN Len(pairs) < MaxPairs ELSE k < MaxAbsent
    /\ pairs' = QsWithOptValue(pairs, key, value)
    /\ call' = Call("with_opt_value", <<key, value>>)
    /\ ret' = "self"
    /\ hist' = IF value # None THEN Append(hist, HistEntry(key, value[1])) ELSE hist
    /\ m' = m + 1
    /\ k' = IF value # None THEN k ELSE k + 1
    /\ UNCHANGED <<wqs, n, merged>>
    /\ UNCHANGED conv
    /\ Frame

\* qs.push(key, value)
Push(key, value) ==
    /\ variant = "dynamic"
    /\ Len(pairs) < MaxPairs
    /\ pairs' = QsPush(pairs, key, value)
    /\ call' = Call("push", <<key, value>>)
    /\ ret' = "self"
    /\ hist' = Append(hist, HistEntry(key, value))
    /\ n' = n + 1
    /\ UNCHANGED <<wqs, m, k, merged>>
    /\ UNCHANGED conv
    /\ Frame

\* qs.push_opt(key, value)
PushOpt(key, value) ==
    /\ variant = "dynamic"
    /\ IF value # None THEN Len(pairs) < MaxPairs ELSE k < MaxAbsent
    /\ pairs' = QsPushOpt(pairs, key, value)
    /\ call' = Call("push_opt", <<key, value>>)
    /\ ret' = "self"
    /\ hist' = IF value # None THEN Append(hist, HistEntry(key, value[1])) ELSE hist
    /\ m' = m + 1
    /\ k' = IF value # None THEN k ELSE k + 1
    /\ UNCHANGED <<wqs, n, merged>>
    /\ UNCHANGED conv
    /\ Frame

\* qs.append(other)
AppendOther(other) ==
    /\ variant = "dynamic"
    /\ Len(pairs) + Len(other) <= MaxPairs
    /\ pairs' = QsAppend(pairs, other)
    /\ call' = Call("append", <<other>>)
    /\ ret' = "unit"
    /\ hist' = hist \o HistOfOther(other)
    /\ merged' = TRUE
    /\ UNCHANGED <<wqs, n, m, k>>
    /\ UNCHANGED conv
    /\ Frame

\* qs = qs.append_into(other)
AppendInto(other) ==
    /\ variant = "dynamic"
    /\ Len(pairs) + Len(other) <= MaxPairs
    /\ pairs' = QsAppendInto(pairs, other)
    /\ call' = Call("append_into", <<other>>)
    /\ ret' = "self"
    /\ hist' = hist \o HistOfOther(other)
    /\ merged' = TRUE
    /\ UNCHANGED <<wqs, n, m, k>>
    /\ UNCHANGED conv
    /\ Frame

\* qs.len()
LenCall ==
    /\ variant = "dynamic"
    /\ call' = Call("len", <<>>)
    /\ ret' = QueryStringLen(pairs)
    /\ UNCHANGED <<pairs, wqs, hist, n, m, k, merged>>
    /\ UNCHANGED conv
    /\ Frame

\* qs.is_empty()
IsEmptyCall ==
    /\ variant = "dynamic"
    /\ call' = Call("is_empty", <<>>)
    /\ ret' = QueryStringIsEmpty(pairs)
    /\ UNCHANGED <<pairs, wqs, hist, n, m, k, merged>>
    /\ UNCHANGED conv
    /\ Frame

\* qs.clone(); the program keeps qs, the clone is what the call returns
CloneCall ==
    /\ variant = "dynamic"
    /\ call' = Call("clone", <<>>)
    /\ ret' = QueryStringClone(pairs)
    /\ UNCHANGED <<pairs, wqs, hist, n, m, k, merged>>
    /\ UNCHANGED conv
    /\ Frame

\* a render that takes the pairs out of the builder as it writes them
ToStringCallDraining ==
    /\ variant = "dynamic"
    /\ call' = Call("to_string", <<>>)
    /\ ret' = QueryStringFmt(pairs)
    /\ pairs' = <<>>
    /\ UNCHANGED <<wqs, hist, n, m, k, merged>>
    /\ UNCHANGED conv
    /\ Frame

\* qs.to_string()
ToStringCall ==
    /\ variant = "dynamic"
    /\ call' = Call("to_string", <<>>)
    /\ ret' = QueryStringFmt(pairs)
    /\ UNCHANGED <<pairs, wqs, hist, n, m, k, merged>>
    /\ UNCHANGED conv
    /\ Frame

\* qs = qs.with_value(key, value) on the slim builder
SlimWithValue(key, value) ==
    /\ variant = "slim"
    /\ n + m < MaxDepth
    /\ wqs' = WqsWithValue(wqs, key, value)
    /\ call' = Call("with_value", <<key, value>>)
    /\ ret' = "self"
    /\ hist' = Append(hist, HistEntry(key, value))
    /\ n' = n + 1
    /\ UNCHANGED <<pairs, m, k, merged>>
    /\ conv' = <<>>
    /\ Frame

\* qs = qs.with_opt_value(key, value) on the slim builder
SlimWithOptValue(key, value) ==
    /\ variant = "slim"
    /\ n + m < MaxDepth
    /\ wqs' = WqsWithOptValue(wqs, key, value)
    /\ call' = Call("with_opt_value", <<key, value>>)
    /\ ret' = "self"
    /\ hist' = IF value # None THEN Append(hist, HistEntry(key, value[1])) ELSE hist
    /\ m' = m + 1
    /\ k' = IF value # None THEN k ELSE k + 1
    /\ UNCHANGED <<pairs, n, merged>>
    /\ conv' = <<>>
    /\ Frame

\* qs.len() on the slim builder
SlimLenCall ==
    /\ variant = "slim"
    /\ call' = Call("len", <<>>)
    /\ ret' = WqsLen(wqs)
    /\ UNCHANGED <<pairs, wqs, hist, n, m, k, merged>>
    /\ conv' = <<>>
    /\ Frame

\* qs.is_empty() on the slim builder
SlimIsEmptyCall ==
    /\ variant = "slim"
    /\ call' = Call("is_empty", <<>>)
    /\ ret' = WqsIsEmpty(wqs)
    /\ UNCHANGED <<pairs, wqs, hist, n, m, k, merged>>
    /\ conv' = <<>>
    /\ Frame

\* qs.to_string() on the slim builder
SlimToStringCall ==
    /\ variant = "slim"
    /\ call' = Call("to_string", <<>>)
    /\ ret' = WqsFmt(wqs)
    /\ UNCHANGED <<pairs, wqs, hist, n, m, k, merged>>
    /\ conv' = WqsFmtConv(wqs)
    /\ Frame

Next ==
    \/ \E key \in Keys, value \in Values : WithValue(key, value)
    \/ \E kc \in Ctors, key \in Keys, vc \in Ctors, value \in Values :
          With(kc, key, vc, value)
    \/ \E key \in Keys, value \in OptValues : WithOptValue(key, value)
    \/ \E key \in Keys, value \in Values : Push(key, value)
    \/ \E key \in Keys, value \in OptValues : PushOpt(key, value)
    \/ \E other \in OtherBuilders : AppendOther(other)
    \/ \E other \in OtherBuilders : AppendInto(other)
    \/ LenCall
    \/ IsEmptyCall
    \/ ToStringCall
    \/ CloneCall
    \/ \E key \in Keys, value \in Values : SlimWithValue(key, value)
    \/ \E key \in Keys, value \in OptValues : SlimWithOptValue(key, value)
    \/ SlimLenCall
    \/ SlimIsEmptyCall
    \/ SlimToStringCall

Spec == Init /\ [][Next]_vars

----------------------------------------------------------------------------
(* The encoder on its own: a program that builds one Key or Value from a   *)
(* text and displays it.                                                   *)

\* characters of the longer texts: 'a', ' ', '%', '&', '+', '=', DEL,
\* u-umlaut (2 bytes), the euro sign (3 bytes), broccoli (4 bytes)
SrcChars == {97, CharSpace, CharPercent, CharAmp, CharPlus, CharEq, 127, 252, 8364, 129382}

RECURSIVE TextsOfLen(_)
TextsOfLen(l) ==
    IF l = 0 THEN {<<>>}
    ELSE {Append(t, c) : t \in TextsOfLen(l - 1), c \in SrcChars}

\* every one-character text up to MaxByteChar, and every text over SrcChars up to MaxSrcLen
SrcTexts ==
    {<<c>> : c \in 0 .. MaxByteChar} \cup UNION {TextsOfLen(l) : l \in 0 .. MaxSrcLen}

InitEnc ==
    /\ variant = "text"
    /\ pairs = QueryStringNew
    /\ wqs = WqsNew
    /\ call = Call("none", <<>>)
    /\ ret = "unit"
    /\ hist = <<>>
    /\ n = 0
    /\ m = 0
    /\ k = 0
    /\ merged = FALSE
    /\ conv = <<>>
    /\ src \in SrcTexts
    /\ txt = None

FrameEnc == UNCHANGED <<variant, pairs, wqs, hist, n, m, k, merged, conv, src>>

\* a constructor of Key or Value is called on src and the program keeps the result
Construct(name, text) ==
    /\ txt' = Some(text)
    /\ call' = Call(name, <<src>>)
    /\ ret' = "text"
    /\ FrameEnc

EncKeyFrom == Construct("Key::from", KeyFrom(Str(src)))
EncKeyFromEager == Construct("Key::from_eager", KeyFromEager(Str(src)))
EncKeyFromStr == Construct("Key::from_str", KeyFromStr(src))
EncKeyFromRawBytes == Construct("Key::from_raw_bytes", KeyFromRawBytes(Utf8(src)))
EncValueFrom == Construct("Value::from", ValueFrom(Str(src)))
EncValueFromEager == Construct("Value::from_eager", ValueFromEager(Str(src)))
EncValueFromStr == Construct("Value::from_str", ValueFromStr(src))
EncValueFromRawBytes == Construct("Value::from_raw_bytes", ValueFromRawBytes(Utf8(src)))

\* the Text built last is displayed (as Display for QueryString does for each key and value)
EncDisplay ==
    /\ txt # None
    /\ call' = Call("fmt", <<>>)
    /\ ret' = TextFmt(txt[1])
    /\ UNCHANGED txt
    /\ FrameEnc

NextEnc ==
    \/ EncKeyFrom
    \/ EncKeyFromEager
    \/ EncKeyFromStr
    \/ EncKeyFromRawBytes
    \/ EncValueFrom
    \/ EncValueFromEager
    \/ EncValueFromStr
    \/ EncValueFromRawBytes
    \/ EncDisplay

SpecEnc == InitEnc /\ [][NextEnc]_vars

----------------------------------------------------------------------------
(* What the claims speak of.                                               *)

\* encode(key) '=' encode(value) of one appended pair
ExpectedPair(h) ==
    Utf8PercentEncode(h.key, QUERY) \o <<CharEq>> \o Utf8PercentEncode(h.value, QUERY)

\* the pairs of a non-empty history joined by single '&'
RECURSIVE ExpectedJoin(_)
ExpectedJoin(h) ==
    IF Len(h) = 1 THEN ExpectedPair(h[1])
    ELSE ExpectedJoin(SubSeq(h, 1, Len(h) - 1)) \o <<CharAmp>> \o ExpectedPair(h[Len(h)])

\* '' for no pairs, else '?' and the joined pairs
ExpectedRender(h) == IF h = <<>> THEN <<>> ELSE <<CharQMark>> \o ExpectedJoin(h)

\* the number of nodes of a slim chain, root to tip, that hold a pair
RECURSIVE PresentNodes(_)
PresentNodes(w) ==
    (IF w.value # None THEN 1 ELSE 0)
        + (IF w.base = None THEN 0 ELSE PresentNodes(w.base[1]))

\* C1: whenever the dynamic builder has been rendered, the string returned is
\* '' if no pair was appended, and otherwise '?' followed by
\* encode(key)=encode(value) of every appended pair, in the order of the
\* calls, joined by single '&', duplicates included.
C1_DynamicRender ==
    (variant = "dynamic" /\ call.op = "to_string") => ret = ExpectedRender(hist)

\* C1 witness: a render of two pairs with the same key, one given pre-encoded
C1_Witness ==
    /\ variant = "dynamic"
    /\ call.op = "to_string"
    /\ Len(hist) = 2
    /\ hist[1].key = hist[2].key
    /\ hist[1].value # hist[2].value
    /\ pairs[1].key.tag = "Formatted"
    /\ pairs[2].key.tag = "Unformatted"

\* C2: whenever the slim builder has been rendered, the string returned is ''
\* if no node holds a pair, and otherwise '?' followed by the present pairs
\* in root-to-tip order joined by single '&', wherever the absent nodes are.
C2_SlimRender ==
    (variant = "slim" /\ call.op = "to_string") => ret = ExpectedRender(hist)

\* C2 witness: a render of a chain whose first and last nodes are absent
\* and that holds two pairs in between
C2_Witness ==
    /\ variant = "slim"
    /\ call.op = "to_string"
    /\ wqs.value = None
    /\ Len(hist) = 2
    /\ k = 2
    /\ wqs.base[1].base[1].base[1].value = None

\* C3 (as claimed): whenever len() has been called on the slim builder, it
\* returned the number of nodes from root to tip that hold a pair.
C3_SlimLenCountsPresent ==
    (variant = "slim" /\ call.op = "len") => ret = PresentNodes(wqs)

\* C4: whenever len() has been called on a dynamic builder that received
\* only required and optional appends, it returned n + m - k.
C4_DynamicCount ==
    (variant = "dynamic" /\ call.op = "len" /\ ~merged) => ret = n + m - k

\* C4 witness: len() after one required append and two optional ones, one absent
C4_Witness ==
    /\ variant = "dynamic"
    /\ call.op = "len"
    /\ ~merged
    /\ n = 1
    /\ m = 2
    /\ k = 1
    /\ ret = 2

\* the render of A's pairs followed by B's, from the renders of A and of B
JoinRenders(a, b) ==
    IF a = <<>> THEN b
    ELSE IF b = <<>> THEN a
    ELSE a \o <<CharAmp>> \o Tail(b)

\* C5: every append(B) and every append_into(B) step leaves the builder with
\* its former pairs, in order, followed by B's pairs, in order; its len() is
\* the sum of the two, its render lists the former pairs before B's, and the
\* two forms give the same pair list.
C5_MergeOrder ==
    [][(variant = "dynamic" /\ call'.op \in {"append", "append_into"}) =>
          LET other == call'.args[1] IN
          /\ pairs' = pairs \o other
          /\ \A i \in 1 .. Len(pairs) : pairs'[i] = pairs[i]
          /\ \A i \in 1 .. Len(other) : pairs'[Len(pairs) + i] = other[i]
          /\ QueryStringLen(pairs') = QueryStringLen(pairs) + QueryStringLen(other)
          /\ QueryStringFmt(pairs') =
                 JoinRenders(QueryStringFmt(pairs), QueryStringFmt(other))
          /\ QsAppend(pairs, other) = QsAppendInto(pairs, other)]_vars

\* C5 witness: a one-pair builder was merged into a builder that held a
\* different pair
C5_Witness ==
    /\ variant = "dynamic"
    /\ call.op = "append"
    /\ Len(call.args[1]) = 1
    /\ Len(pairs) = 2
    /\ pairs[1] # pairs[2]

\* the bytes the claim calls unsafe: controls, DEL, non-ASCII, and
\* space " # < > % & = +
ClaimUnsafe(b) ==
    \/ b \in 0 .. 31
    \/ b = 127
    \/ b >= 128
    \/ b \in {32, 34, 35, 60, 62, 37, 38, 61, 43}

\* "0123456789ABCDEF"
HexChars == <<48, 49, 50, 51, 52, 53, 54, 55, 56, 57, 65, 66, 67, 68, 69, 70>>

\* what the claim says is emitted for one byte
ClaimEmit(b) ==
    IF ClaimUnsafe(b)
    THEN <<37, HexChars[(b \div 16) + 1], HexChars[(b % 16) + 1]>>
    ELSE <<b>>

\* the emissions of bytes[1..i], in order
RECURSIVE ClaimEncode(_, _)
ClaimEncode(bytes, i) ==
    IF i = 0 THEN <<>> ELSE ClaimEncode(bytes, i - 1) \o ClaimEmit(bytes[i])

UnsafeCount(bytes) == Cardinality({i \in 1 .. Len(bytes) : ClaimUnsafe(bytes[i])})

\* C6: whenever a key or value built from a text has been displayed, the
\* output is, byte by byte of the text's UTF-8 form, '%' and two uppercase
\* hex digits for a control, non-ASCII or space " # < > % & = + byte and the
\* byte itself otherwise; its length is len + 2 * (number of unsafe bytes).
C6_Encoder ==
    (variant = "text" /\ call.op = "fmt") =>
        LET bytes == Utf8(src) IN
        /\ ret = ClaimEncode(bytes, Len(bytes))
        /\ Len(ret) = Len(bytes) + 2 * UnsafeCount(bytes)

\* C6 witness: "a" followed by the broccoli emoji was displayed as a%F0%9F%A5%A6
C6_Witness ==
    /\ variant = "text"
    /\ call.op = "fmt"
    /\ src = <<97, 129382>>
    /\ ret = <<97, 37, 70, 48, 37, 57, 70, 37, 65, 53, 37, 65, 54>>

\* the three observations of the builder the program holds
BuilderLen == IF variant = "dynamic" THEN QueryStringLen(pairs) ELSE WqsLen(wqs)
BuilderIsEmpty == IF variant = "dynamic" THEN QueryStringIsEmpty(pairs) ELSE WqsIsEmpty(wqs)
BuilderRender == IF variant = "dynamic" THEN QueryStringFmt(pairs) ELSE WqsFmt(wqs)

\* C7: in every state of either builder, is_empty() is true exactly when
\* len() is 0 and exactly when the render is the empty string; what the last
\* call returned is that observation.
C7_Emptiness ==
    variant \in {"dynamic", "slim"} =>
        /\ BuilderIsEmpty <=> (BuilderLen = 0)
        /\ BuilderIsEmpty <=> (BuilderRender = <<>>)
        /\ call.op = "is_empty" => ret = BuilderIsEmpty
        /\ call.op = "new" => BuilderIsEmpty

\* C7 witness: is_empty() returned false on a slim chain whose tip is absent
\* and that holds a pair further down
C7_Witness ==
    /\ variant = "slim"
    /\ call.op = "is_empty"
    /\ ret = FALSE
    /\ wqs.value = None
    /\ Len(hist) = 1

\* C8: a to_string() step that follows a to_string() returns the same
\* string, and every to_string() step leaves the pairs, len() and is_empty()
\* of the builder as they were.
C8_RenderIdempotent ==
    [][(call'.op = "to_string") =>
          /\ pairs' = pairs
          /\ wqs' = wqs
          /\ QueryStringLen(pairs') = QueryStringLen(pairs)
          /\ QueryStringIsEmpty(pairs') = QueryStringIsEmpty(pairs)
          /\ WqsLen(wqs') = WqsLen(wqs)
          /\ WqsIsEmpty(wqs') = WqsIsEmpty(wqs)
          /\ ret' = (IF variant = "dynamic" THEN QueryStringFmt(pairs') ELSE WqsFmt(wqs'))
          /\ (call.op = "to_string" => ret' = ret)]_vars

\* C8 witness: a non-empty dynamic builder has been rendered
C8_Witness ==
    /\ variant = "dynamic"
    /\ call.op = "to_string"
    /\ Len(pairs) = 2
    /\ ret # <<>>

\* C9: every with_opt_value(key, None) and push_opt(key, None) step on the
\* dynamic builder leaves the pair list, len() and the render as they were.
C9_AbsentNoop ==
    [][(variant = "dynamic"
            /\ call'.op \in {"with_opt_value", "push_opt"}
            /\ call'.args[2] = None) =>
          /\ pairs' = pairs
          /\ QueryStringLen(pairs') = QueryStringLen(pairs)
          /\ QueryStringFmt(pairs') = QueryStringFmt(pairs)]_vars

\* C9 witness: push_opt with None was called on a builder holding one pair
C9_Witness ==
    /\ variant = "dynamic"
    /\ call.op = "push_opt"
    /\ call.args[2] = None
    /\ Len(pairs) = 1

\* C10: whenever a key or value has been displayed, whichever constructor
\* built it (raw or pre-encoded), the output is the one encoding of the
\* text, which is also what the raw form displays; pre-encoded text is
\* written as stored.
C10_EagerDeferredAgree ==
    (variant = "text" /\ call.op = "fmt") =>
        /\ ret = Utf8PercentEncode(src, QUERY)
        /\ ret = TextFmt(KeyFrom(Str(src)))
        /\ ret = TextFmt(ValueFrom(Str(src)))
        /\ txt[1].tag = "Formatted" => ret = txt[1].text

\* C10 witness: a pre-encoded "%" was displayed as %25
C10_Witness ==
    /\ variant = "text"
    /\ call.op = "fmt"
    /\ txt[1].tag = "Formatted"
    /\ src = <<CharPercent>>
    /\ ret = <<37, 50, 53>>

\* the dynamic builder that received the calls that built a slim chain, in
\* the same order: with_value for a node holding a pair, with_opt_value with
\* None for an absent node (whose key the chain does not keep)
RECURSIVE Replay(_)
Replay(w) ==
    IF w.base = None THEN QueryStringNew
    ELSE IF w.value # None
         THEN QsWithValue(Replay(w.base[1]), w.value[1].key, w.value[1].value)
         ELSE QsWithOptValue(Replay(w.base[1]), CHOOSE key \in Keys : TRUE, None)

\* the same, every node holding a pair being appended by with_opt_value
RECURSIVE ReplayOpt(_)
ReplayOpt(w) ==
    IF w.base = None THEN QueryStringNew
    ELSE QsWithOptValue(ReplayOpt(w.base[1]),
                        IF w.value # None THEN w.value[1].key ELSE CHOOSE key \in Keys : TRUE,
                        IF w.value # None THEN Some(w.value[1].value) ELSE None)

\* C11: whenever the slim builder has been rendered, the string returned is
\* the render of the dynamic builder that received the same with_value /
\* with_opt_value calls with the same keys and values.
C11_VariantsAgree ==
    (variant = "slim" /\ call.op = "to_string") =>
        /\ ret = QueryStringFmt(Replay(wqs))
        /\ ret = QueryStringFmt(ReplayOpt(wqs))

\* C11 witness: a render of a slim chain holding the key "&=\u{FC}" with the
\* value " %" and an absent node
C11_Witness ==
    /\ variant = "slim"
    /\ call.op = "to_string"
    /\ k >= 1
    /\ \E i \in 1 .. Len(hist) :
          /\ hist[i].key = <<CharAmp, CharEq, 252>>
          /\ hist[i].value = <<CharSpace, CharPercent>>

\* the key and the value of every node of a slim chain that holds a pair,
\* root to tip
RECURSIVE PresentTexts(_)
PresentTexts(w) ==
    (IF w.base = None THEN <<>> ELSE PresentTexts(w.base[1]))
        \o (IF w.value # None THEN <<w.value[1].key, w.value[1].value>> ELSE <<>>)

\* C12: on the slim builder, new, with_value, with_opt_value, len() and
\* is_empty() invoke no text conversion, and a render invokes the conversion
\* exactly once for the key and once for the value of every node holding a
\* pair, and for nothing else.
C12_DeferredConversion ==
    variant = "slim" =>
        /\ call.op \in {"new", "with_value", "with_opt_value", "len", "is_empty"} =>
               conv = <<>>
        /\ call.op = "to_string" =>
               /\ conv = PresentTexts(wqs)
               /\ Len(conv) = 2 * PresentNodes(wqs)

\* C12 witness: a render of a chain of two pairs and an absent node
\* converted four texts
C12_Witness ==
    /\ variant = "slim"
    /\ call.op = "to_string"
    /\ k >= 1
    /\ PresentNodes(wqs) = 2
    /\ Len(conv) = 4

\* the tags of all keys and values a pair list stores
TagsOf(ps) == {ps[i].key.tag : i \in 1 .. Len(ps)} \cup {ps[i].value.tag : i \in 1 .. Len(ps)}

\* the tag each way of handing a text to with() gives it
CtorTag(c) == IF c \in {"into", "from"} THEN "Unformatted" ELSE "Formatted"

\* C13 (as claimed): in every reachable dynamic builder all stored keys and
\* values carry the same tag.
C13_SingleTag ==
    variant = "dynamic" => Cardinality(TagsOf(pairs)) <= 1

\* C13 (amended): the tag is chosen per text at each call: every stored text
\* carries one of the two tags; a with_value, push, with_opt_value or
\* push_opt step stores the key and the value of the pair it adds raw; a
\* with step stores the key and the value each as one of the constructors
\* makes it, with that constructor's tag.
C13_TagPerText ==
    [][variant = "dynamic" =>
          /\ TagsOf(pairs') \subseteq {"Unformatted", "Formatted"}
          /\ call'.op \in {"with_value", "push", "with_opt_value", "push_opt"} =>
                \A i \in Len(pairs) + 1 .. Len(pairs') :
                    /\ pairs'[i].key.tag = "Unformatted"
                    /\ pairs'[i].value.tag = "Unformatted"
          /\ call'.op = "with" =>
                /\ Len(pairs') = Len(pairs) + 1
                /\ \E kc \in Ctors, vc \in Ctors :
                      /\ CtorAccepts(kc, call'.args[1])
                      /\ CtorAccepts(vc, call'.args[2])
                      /\ pairs'[Len(pairs')].key = MakeKey(kc, call'.args[1])
                      /\ pairs'[Len(pairs')].value = MakeValue(vc, call'.args[2])
                      /\ pairs'[Len(pairs')].key.tag = CtorTag(kc)
                      /\ pairs'[Len(pairs')].value.tag = CtorTag(vc)]_vars

\* C13 witness: with() stored a pre-encoded key with a raw value behind a
\* pair whose key is raw
C13_Witness ==
    /\ variant = "dynamic"
    /\ call.op = "with"
    /\ Len(pairs) = 2
    /\ pairs[1].key.tag = "Unformatted"
    /\ pairs[2].key.tag = "Formatted"
    /\ pairs[2].value.tag = "Unformatted"

\* C14: every step on the dynamic builder (with_value, with, push, the
\* optional appends, append, append_into, clone, len, is_empty, render)
\* leaves every pair already stored at its place with its key text, value
\* text and tags unchanged, and only adds pairs behind them; a clone holds
\* the same pairs.
C14_PairsFrozen ==
    [][variant = "dynamic" =>
          /\ Len(pairs') >= Len(pairs)
          /\ \A i \in 1 .. Len(pairs) :
                /\ pairs'[i].key.text = pairs[i].key.text
                /\ pairs'[i].key.tag = pairs[i].key.tag
                /\ pairs'[i].value.text = pairs[i].value.text
                /\ pairs'[i].value.tag = pairs[i].value.tag
          /\ call'.op = "clone" => ret' = pairs]_vars

\* C14 witness: a pre-encoded key stored first is still first after a merge
\* put a raw pair behind it
C14_Witness ==
    /\ variant = "dynamic"
    /\ call.op = "append_into"
    /\ Len(call.args[1]) = 1
    /\ Len(pairs) = 2
    /\ pairs[1].key.tag = "Formatted"
    /\ pairs[1].key.text # pairs[2].key.text

\* the number of occurrences of a character in a string
CountChar(str, c) == Cardinality({i \in 1 .. Len(str) : str[i] = c})

\* the number of pairs the builder holds
PairCount == IF variant = "dynamic" THEN Len(pairs) ELSE PresentNodes(wqs)

\* C15: whenever a builder of either variant that holds at least one pair
\* has been rendered, the string returned contains exactly (pairs - 1) '&'
\* and exactly (pairs) '=', whatever characters the keys and values contain.
C15_DelimitersUnambiguous ==
    (variant \in {"dynamic", "slim"} /\ call.op = "to_string" /\ PairCount >= 1) =>
        /\ CountChar(ret, CharAmp) = PairCount - 1
        /\ CountChar(ret, CharEq) = PairCount

\* C15 witness: a render of two pairs of the dynamic builder whose keys both
\* contain '&' and '=', one stored raw and one pre-encoded
C15_Witness ==
    /\ variant = "dynamic"
    /\ call.op = "to_string"
    /\ Len(pairs) = 2
    /\ hist[1].key = <<CharAmp, CharEq, 252>>
    /\ hist[2].key = <<CharAmp, CharEq, 252>>
    /\ pairs[1].key.tag = "Unformatted"
    /\ pairs[2].key.tag = "Formatted"
    /\ CountChar(ret, CharAmp) = 1

\* the render of a builder of either variant
RenderOf(v, ps, w) == IF v = "dynamic" THEN QueryStringFmt(ps) ELSE WqsFmt(w)

\* the calls that append one present pair, by the call record
IsOptionalCall(c) == c.op \in {"with_opt_value", "push_opt"}
IsPresentAppend(c) ==
    \/ c.op \in {"with_value", "push", "with"}
    \/ (IsOptionalCall(c) /\ c.args[2] # None)
AppendedValue(c) == IF IsOptionalCall(c) THEN c.args[2][1] ELSE c.args[2]

\* C16: in both variants, every step that appends one present pair (k, v)
\* turns the render r of the builder into r, then '?' if r is empty and '&'
\* otherwise, then encode(k) '=' encode(v); in the slim builder also when
\* the nodes before the new pair are absent.
C16_RenderGrowsBySuffix ==
    [][(variant \in {"dynamic", "slim"} /\ IsPresentAppend(call')) =>
          LET r == RenderOf(variant, pairs, wqs) IN
          RenderOf(variant, pairs', wqs') =
              r \o (IF r = <<>> THEN <<CharQMark>> ELSE <<CharAmp>>)
                \o ExpectedPair(HistEntry(call'.args[1], AppendedValue(call')))]_vars

\* C16 witness: with_value on a slim chain that held one pair followed by
\* two absent nodes
C16_Witness ==
    /\ variant = "slim"
    /\ call.op = "with_value"
    /\ Len(hist) = 2
    /\ wqs.base[1].value = None
    /\ wqs.base[1].base[1].value = None
    /\ wqs.base[1].base[1].base[1].value # None

\* whether a RootMarker value sits below a slim builder value
RECURSIVE ChainHasMarker(_)
ChainHasMarker(w) ==
    IF IsRootMarker(w) THEN TRUE
    ELSE IF w.base = None THEN FALSE
    ELSE ChainHasMarker(w.base[1])

\* C17: no slim chain built by new / with_value / with_opt_value holds a
\* RootMarker value: the chain ends in a node whose base is BaseOption::None,
\* and neither a render that has something to display nor one that has not
\* runs into the unreachable!() of RootMarker::cond_fmt; the '?' is written
\* exactly when a pair is rendered.
C17_UnreachableNotReached ==
    variant = "slim" =>
        /\ ~ChainHasMarker(wqs)
        /\ ~BaseOptionCondFmt(wqs.base, TRUE).unreachable
        /\ ~BaseOptionCondFmt(wqs.base, FALSE).unreachable
        /\ ~CondFmt(wqs, TRUE).unreachable
        /\ ~CondFmt(wqs, FALSE).unreachable
        /\ call.op = "to_string" =>
               (PresentNodes(wqs) >= 1 <=> (ret # <<>> /\ Head(ret) = CharQMark))

\* C17 witness: a render of a chain of three pairs and one absent node
C17_Witness ==
    /\ variant = "slim"
    /\ call.op = "to_string"
    /\ k = 1
    /\ Len(hist) = 3
    /\ Head(ret) = CharQMark

====
